---- MODULE Spec2Model ----
(***************************************************************************)
(* Session-validation protocol and gateway of the rust-microservices mesh: *)
(*   auth-service  (register, login, create_jwt, password, UserStore)      *)
(*   data-service  (get_data)                                              *)
(*   test-service  (check_login)                                           *)
(*   api-service   (proxy_request)                                         *)
(* sharing one Redis session store and one wall clock.                     *)
(***************************************************************************)
EXTENDS Integers, Sequences, FiniteSets, TLC

(* ---------------------------- bounds ----------------------------------- *)
\* number of clock advances explored
MaxTicks == 2
\* number of tokens create_jwt may issue
MaxLogins == 2
\* number of requests the gateway takes in
MaxProxied == 3

(* ------------------------ program constants ---------------------------- *)
\* jwt.rs:25  exp = now + 3600
ExpSecs == 3600
\* handlers.rs:81  conn.set_ex(&token, "valid", 172800)
TtlSecs == 172800
\* Validation::default() of jsonwebtoken: validate_exp = true, leeway = 60 s
Leeway == 60

\* HTTP status codes used by the handlers
CREATED == 201
CONFLICT == 409
OK == 200
UNAUTHORIZED == 401
INTERNAL_SERVER_ERROR == 500

(* --------------------------- input sets -------------------------------- *)
\* concurrent requests, each served by one handler (a tokio task)
Procs == {1, 2}
\* the requests that go to data-service when the backends are called directly
DataProcs == {2}
Emails == {"u1", "u2"}
\* emails that sign up; "u2" stays a stranger to the directory
Registrants == {"u1"}
Passwords == {"p1", "p2"}
\* SaltString::generate(&mut OsRng)
Salts == {"s1"}
\* the shared JWT_SECRET of the three services
Secret == "jwt-secret"
\* a key that is not the shared secret
AttackerKey == "other-key"
\* clock advances, in seconds
TimeSteps == {ExpSecs + 30, TtlSecs}

VARIABLES
    now,        \* SystemTime::now() in seconds since the epoch start of the run
    ticks,      \* clock advances so far
    users,      \* UserStore.users : HashMap<String, User>
    lock,       \* owner of the UserStore.users Mutex, 0 when free
    nextId,     \* Uuid::new_v4() as a fresh number
    sessions,   \* Redis: token string -> absolute expiry of the key
    issued,     \* number of tokens create_jwt has built
    pc,         \* position of each auth-service handler
    req,        \* the request each handler is serving
    tok,        \* the local `token` of each login handler
    written,    \* every SET EX the store has served: token string -> expiry given
    held,       \* tokens clients have received in a 200 login response
    ev,         \* the response a handler has just sent, NoEv when there is none
    gd,         \* the request each get_data handler is serving
    gw,         \* the request each proxy_request handler is serving
    proxied     \* number of requests the gateway has taken in

vars == <<now, ticks, users, lock, nextId, sessions, issued, pc, req, tok, written, held, ev, gd, gw, proxied>>

(* ------------------------------- maps ---------------------------------- *)
\* HashMap::new() / an empty Redis keyspace
EmptyMap == [k \in {} |-> 0]

\* HashMap::insert / Redis SET: overwrite-if-exists
Put(m, k, v) == [x \in (DOMAIN m) \cup {k} |-> IF x = k THEN v ELSE m[x]]

\* removal of the keys in S
Drop(m, S) == [x \in (DOMAIN m) \ S |-> m[x]]

(* ------------------------------ tokens --------------------------------- *)
\* HMAC-SHA256 of the encoded claims under `key`: injective in (key, claims)
Sign(key, sub, email, exp) ==
    [key |-> key, sub |-> sub, email |-> email, exp |-> exp]

NoSig == [key |-> "", sub |-> 0, email |-> "", exp |-> 0]

\* the empty string after "Bearer "
EmptyToken == [kind |-> "empty", sub |-> 0, email |-> "", exp |-> 0, sig |-> NoSig]
\* a string that is not three base64url segments
GarbageToken == [kind |-> "garbage", sub |-> 0, email |-> "", exp |-> 0, sig |-> NoSig]
\* no token at all (absent Option / field)
NoToken == [kind |-> "none", sub |-> 0, email |-> "", exp |-> 0, sig |-> NoSig]

\* jwt.rs create_jwt, evaluated at clock value t
create_jwt(user_id, email, secret, t) ==
    [kind |-> "jwt", sub |-> user_id, email |-> email, exp |-> t + ExpSecs,
     sig |-> Sign(secret, user_id, email, t + ExpSecs)]

\* jsonwebtoken::decode::<Claims>(token, secret, &Validation::default()) at clock t:
\* structure, then signature, then exp with leeway
decode(token, secret, t) ==
    IF token.kind # "jwt" THEN "InvalidToken"
    ELSE IF token.sig # Sign(secret, token.sub, token.email, token.exp)
         THEN "InvalidSignature"
    ELSE IF token.exp < t - Leeway THEN "ExpiredSignature"
    ELSE "Ok"

(* ----------------------------- passwords ------------------------------- *)
\* password.rs hash_password: a salted digest
hash_password(password, salt) == [pw |-> password, salt |-> salt]

\* password.rs verify_password
verify_password(password, hash) == hash.pw = password

(* --------------------------- request headers --------------------------- *)
NoHeader == [scheme |-> "none", token |-> NoToken]
Bearer(t) == [scheme |-> "Bearer", token |-> t]

\* what a client that holds token t can derive from it without the secret
Tampered(t) ==
    { [t EXCEPT !.sig = Sign(AttackerKey, t.sub, t.email, t.exp)],
      [t EXCEPT !.exp = t.exp + ExpSecs] }

\* the Authorization headers a client can send in the current state
Headers ==
    {NoHeader, [scheme |-> "Basic", token |-> GarbageToken],
     [scheme |-> "NonAscii", token |-> GarbageToken],
     Bearer(EmptyToken), Bearer(GarbageToken)}
    \cup {Bearer(t) : t \in held}
    \cup {Bearer(u) : u \in UNION {Tampered(t) : t \in held}}

NoReq == [op |-> "none", email |-> "", password |-> ""]

NoEv == [op |-> "none"]

\* an empty HTTP body
NoBody == [kind |-> "empty"]
\* no upstream response
NoUp == [status |-> 0, headers |-> << >>, body |-> NoBody]
\* no request in the gateway's handler
NoGw == [pc |-> "idle",
         request |-> [uri |-> [path |-> << >>, query |-> ""], method |-> "",
                      headers |-> NoHeader, body |-> NoBody],
         up |-> NoUp]

(* ------------------------------- Init ---------------------------------- *)
Init ==
    /\ now = 0
    /\ ticks = 0
    /\ users = EmptyMap
    /\ lock = 0
    /\ nextId = 1
    /\ sessions = EmptyMap
    /\ issued = 0
    /\ pc = [p \in Procs |-> "idle"]
    /\ req = [p \in Procs |-> NoReq]
    /\ tok = [p \in Procs |-> NoToken]
    /\ written = EmptyMap
    /\ held = {}
    /\ ev = NoEv
    /\ gd = [p \in Procs |-> [hdr |-> NoHeader, at |-> 0]]
    /\ gw = [p \in Procs |-> NoGw]
    /\ proxied = 0

(* ------------------------------ client --------------------------------- *)
\* the client reads the response; the access_token of a 200 login response is
\* from now on in a client's hands
Receive ==
    /\ ev # NoEv
    /\ held' = IF ev.op = "login" /\ ev.status = OK
                   THEN held \cup {ev.token}
               ELSE IF ev.op = "proxy" /\ ev.resp.status = OK /\ ev.resp.body.kind = "token"
                   THEN held \cup {ev.resp.body.access_token}
               ELSE held
    /\ ev' = NoEv
    /\ UNCHANGED <<now, ticks, users, lock, nextId, sessions, issued, pc, req, tok, written, gd, gw, proxied>>

(* ------------------------- auth-service: Mutex ------------------------- *)
\* a directory that is entered without taking the Mutex
lock_free_unchecked(l) == TRUE

\* store.rs:15  Mutex<HashMap<..>>: lock() returns only while no guard is alive
lock_free(l) == l = 0

(* --------------------- auth-service: register -------------------------- *)
\* a POST /api/register request; handlers.rs:38  store.users.lock().unwrap()
RegisterLock(p, email, password) ==
    /\ ev = NoEv
    /\ pc[p] = "idle"
    /\ lock_free(lock)
    /\ lock' = p
    /\ pc' = [pc EXCEPT ![p] = "reg_check"]
    /\ req' = [req EXCEPT ![p] = [op |-> "register", email |-> email, password |-> password]]
    /\ UNCHANGED <<now, ticks, users, nextId, sessions, issued, tok, written, held, ev, gd, proxied>>

\* the response of register; the guard is dropped on return
RegisterDone(p, status) ==
    /\ ev' = [op |-> "register", status |-> status, email |-> req[p].email,
              password |-> req[p].password, token |-> NoToken]
    /\ lock' = IF lock = p THEN 0 ELSE lock
    /\ pc' = [pc EXCEPT ![p] = "idle"]
    /\ req' = [req EXCEPT ![p] = NoReq]

\* handlers.rs:40  users.contains_key(&req.email)
contains_key(us, email) == email \in DOMAIN us

\* handlers.rs:40-42  if users.contains_key(&req.email) { return Err(CONFLICT) }
RegisterCheck(p) ==
    /\ ev = NoEv
    /\ pc[p] = "reg_check"
    /\ \/ /\ contains_key(users, req[p].email)
          /\ RegisterDone(p, CONFLICT)
          /\ UNCHANGED <<now, ticks, users, nextId, sessions, issued, tok, written, held, gd, gw, proxied>>
       \/ /\ ~contains_key(users, req[p].email)
          /\ pc' = [pc EXCEPT ![p] = "reg_insert"]
          /\ UNCHANGED <<now, ticks, users, lock, nextId, sessions, issued, req, tok, written, held, ev, gd, gw, proxied>>

\* handlers.rs:44-48  User { id: Uuid::new_v4(), email, password_hash }
new_user(id, email, password, salt) ==
    [id |-> id, email |-> email, password_hash |-> hash_password(password, salt)]

\* handlers.rs:44-52  users.insert(req.email, user); Ok(CREATED)
RegisterInsert(p) ==
    /\ ev = NoEv
    /\ pc[p] = "reg_insert"
    /\ \E salt \in Salts :
         users' = Put(users, req[p].email,
                      new_user(nextId, req[p].email, req[p].password, salt))
    /\ nextId' = nextId + 1
    /\ RegisterDone(p, CREATED)
    /\ UNCHANGED <<now, ticks, sessions, issued, tok, written, held, gd, gw, proxied>>

(* ----------------------- auth-service: login --------------------------- *)
\* a POST /api/login request; handlers.rs:59  let users = store.users.lock().unwrap()
LoginLock(p, email, password) ==
    /\ ev = NoEv
    /\ pc[p] = "idle"
    /\ issued + Cardinality({q \in Procs : pc[q] = "login_check"}) < MaxLogins
    /\ lock_free(lock)
    /\ lock' = p
    /\ pc' = [pc EXCEPT ![p] = "login_check"]
    /\ req' = [req EXCEPT ![p] = [op |-> "login", email |-> email, password |-> password]]
    /\ UNCHANGED <<now, ticks, users, nextId, sessions, issued, tok, written, held, ev, gd, proxied>>

\* handlers.rs:61-67: the outcome of lookup and credential verification
login_check(us, email, password) ==
    IF email \notin DOMAIN us THEN "no_user"
    ELSE IF ~verify_password(password, us[email].password_hash) THEN "bad_password"
    ELSE "ok"

\* a login that tells an unknown email from a wrong password
login_reject_status_distinct(cause) ==
    IF cause = "no_user" THEN 404 ELSE UNAUTHORIZED

\* handlers.rs:63,66: the status of a login rejected for `cause`
login_reject_status(cause) == UNAUTHORIZED

\* a login that answers 200 although the store step failed
login_store_error_ignored(cause) == OK

\* handlers.rs:78,83: the status of a login whose store step `cause` failed
login_store_error_status(cause) == INTERNAL_SERVER_ERROR

\* the response of a login that ends at a `?` or `return Err`: a bare status;
\* the `users` guard is dropped on return
LoginFail(p, status, cause) ==
    /\ ev' = [op |-> "login", status |-> status, email |-> req[p].email,
              password |-> req[p].password, token |-> NoToken,
              cause |-> cause, minted |-> tok[p]]
    /\ lock' = IF lock = p THEN 0 ELSE lock
    /\ pc' = [pc EXCEPT ![p] = "idle"]
    /\ req' = [req EXCEPT ![p] = NoReq]
    /\ tok' = [tok EXCEPT ![p] = NoToken]

\* handlers.rs:61-73: lookup, verify_password, create_jwt
LoginCheck(p) ==
    /\ ev = NoEv
    /\ pc[p] = "login_check"
    /\ LET c == login_check(users, req[p].email, req[p].password) IN
       \/ /\ c # "ok"
          /\ LoginFail(p, login_reject_status(c), c)
          /\ UNCHANGED <<now, ticks, users, nextId, sessions, issued, written, held, gd, gw, proxied>>
       \/ /\ c = "ok"
          /\ tok' = [tok EXCEPT ![p] =
                       create_jwt(users[req[p].email].id, users[req[p].email].email, Secret, now)]
          /\ issued' = issued + 1
          /\ pc' = [pc EXCEPT ![p] = "login_connect"]
          /\ UNCHANGED <<now, ticks, users, lock, nextId, sessions, req, written, held, ev, gd, gw, proxied>>

\* handlers.rs:76-79  store.redis_client.get_connection()
LoginConnect(p) ==
    /\ ev = NoEv
    /\ pc[p] = "login_connect"
    /\ \/ /\ pc' = [pc EXCEPT ![p] = "login_set_ex"]
          /\ UNCHANGED <<now, ticks, users, lock, nextId, sessions, issued, req, tok, written, held, ev, gd, gw, proxied>>
       \/ /\ LoginFail(p, login_store_error_status("connect"), "connect")
          /\ UNCHANGED <<now, ticks, users, nextId, sessions, issued, written, held, gd, gw, proxied>>

\* a record stored under a namespaced key, not under the token string itself
session_record_prefixed(token, t) ==
    [key |-> [token EXCEPT !.kind = "session:jwt"], expire_at |-> t + TtlSecs]

\* a record whose TTL ends before the token's embedded expiry
session_record_short_ttl(token, t) ==
    [key |-> token, expire_at |-> t + ExpSecs - 1]

\* handlers.rs:81  the key and the absolute expiry login hands to SET EX
session_record(token, t) == [key |-> token, expire_at |-> t + TtlSecs]

\* handlers.rs:81-84  conn.set_ex(&token, "valid", 172800)
LoginSetEx(p) ==
    /\ ev = NoEv
    /\ pc[p] = "login_set_ex"
    /\ \/ /\ LET r == session_record(tok[p], now) IN
               /\ sessions' = Put(sessions, r.key, r.expire_at)
               /\ written' = Put(written, r.key, r.expire_at)
          /\ pc' = [pc EXCEPT ![p] = "login_ret"]
          /\ UNCHANGED <<now, ticks, users, lock, nextId, issued, req, tok, held, ev, gd, gw, proxied>>
       \/ /\ LoginFail(p, login_store_error_status("set_ex"), "set_ex")
          /\ UNCHANGED <<now, ticks, users, nextId, sessions, issued, written, held, gd, gw, proxied>>

\* handlers.rs:86-88: the access_token of the 200 response
login_access_token(token) == token

\* handlers.rs:86-88  Ok(Json(AuthResponse { access_token: token }))
LoginReturn(p) ==
    /\ ev = NoEv
    /\ pc[p] = "login_ret"
    /\ ev' = [op |-> "login", status |-> OK, email |-> req[p].email,
              password |-> req[p].password, token |-> login_access_token(tok[p]),
              cause |-> "ok", minted |-> tok[p]]
    /\ lock' = IF lock = p THEN 0 ELSE lock
    /\ pc' = [pc EXCEPT ![p] = "idle"]
    /\ req' = [req EXCEPT ![p] = NoReq]
    /\ tok' = [tok EXCEPT ![p] = NoToken]
    /\ UNCHANGED <<now, ticks, users, nextId, sessions, issued, written, held, gd, gw, proxied>>

(* --------------------------- session store ----------------------------- *)
\* a liveness check that never consults the keyspace
exists_always(store, token) == TRUE

\* Redis EXISTS key
exists(store, token) == token \in DOMAIN store

\* the clock advances; Redis drops the keys whose TTL has elapsed
Tick(d) ==
    /\ ev = NoEv
    /\ ticks < MaxTicks
    /\ ticks' = ticks + 1
    /\ now' = now + d
    /\ sessions' = Drop(sessions, {t \in DOMAIN sessions : sessions[t] <= now + d})
    /\ UNCHANGED <<users, lock, nextId, issued, pc, req, tok, written, held, ev, gd, gw, proxied>>

\* explicit deletion of a Session Record (revocation, Redis DEL)
Revoke(t) ==
    /\ ev = NoEv
    /\ t \in DOMAIN sessions
    /\ sessions' = Drop(sessions, {t})
    /\ UNCHANGED <<now, ticks, users, lock, nextId, issued, pc, req, tok, written, held, ev, gd, gw, proxied>>

(* ---------------------- data-service: get_data ------------------------- *)
\* main.rs:83-91: the bearer token of the Authorization header, NoToken when the
\* header is absent, is not a string, or does not start with "Bearer "
bearer_token(hdr) ==
    IF hdr.scheme = "Bearer" THEN hdr.token ELSE NoToken

\* a get_data that treats a store fault as "authenticated"
get_data_fail_open(hdr, store, redis, t) ==
    LET token == bearer_token(hdr) IN
    IF token = NoToken
        THEN [status |-> UNAUTHORIZED, trips |-> 0, user_email |-> ""]
    ELSE IF decode(token, Secret, t) # "Ok"
        THEN [status |-> UNAUTHORIZED, trips |-> 0, user_email |-> ""]
    ELSE IF redis = "no_connection"
        THEN [status |-> OK, trips |-> 1, user_email |-> token.email]
    ELSE IF redis = "command_failed"
        THEN [status |-> OK, trips |-> 2, user_email |-> token.email]
    ELSE IF ~exists(store, token)
        THEN [status |-> UNAUTHORIZED, trips |-> 2, user_email |-> ""]
    ELSE [status |-> OK, trips |-> 2, user_email |-> token.email]

\* main.rs:83-143: the response of get_data and the store round trips it made
\* (0: none, 1: get_connection only, 2: get_connection and EXISTS). `redis` is
\* what the store did: "ok" it answered, "no_connection" no connection could
\* be had, "command_failed" the EXISTS command failed, "not_asked"
get_data(hdr, store, redis, t) ==
    LET token == bearer_token(hdr) IN
    IF token = NoToken
        THEN [status |-> UNAUTHORIZED, trips |-> 0, user_email |-> ""]
    ELSE IF decode(token, Secret, t) # "Ok"
        THEN [status |-> UNAUTHORIZED, trips |-> 0, user_email |-> ""]
    ELSE IF redis = "no_connection"
        THEN [status |-> INTERNAL_SERVER_ERROR, trips |-> 1, user_email |-> ""]
    ELSE IF redis = "command_failed"
        THEN [status |-> INTERNAL_SERVER_ERROR, trips |-> 2, user_email |-> ""]
    ELSE IF ~exists(store, token)
        THEN [status |-> UNAUTHORIZED, trips |-> 2, user_email |-> ""]
    ELSE [status |-> OK, trips |-> 2, user_email |-> token.email]

\* no get_data request in the handler
NoGd == [hdr |-> NoHeader, at |-> 0]

\* the response get_data sends: what it answers, the request it answers, the
\* clock value `at` at which it verified the token, and what the store did
get_data_response(hdr, redis, at) ==
    [op |-> "get_data", hdr |-> hdr, redis |-> redis, at |-> at,
     resp |-> get_data(hdr, sessions, redis, at)]

\* a GET /api/data request; main.rs:83-102: header, token, decode. A request
\* that fails here is answered 401 at once and the store is not asked; one
\* that passes goes on to the store
GetDataBegin(p, hdr) ==
    /\ ev = NoEv
    /\ pc[p] = "idle"
    /\ IF bearer_token(hdr) = NoToken \/ decode(bearer_token(hdr), Secret, now) # "Ok"
          THEN /\ ev' = get_data_response(hdr, "not_asked", now)
               /\ UNCHANGED <<pc, gd>>
          ELSE /\ pc' = [pc EXCEPT ![p] = "gd_connect"]
               /\ gd' = [gd EXCEPT ![p] = [hdr |-> hdr, at |-> now]]
               /\ ev' = ev
    /\ UNCHANGED <<now, ticks, users, lock, nextId, sessions, issued, req, tok, written, held, proxied>>

\* main.rs:105-108  state.redis_client.get_connection()
GetDataConnect(p) ==
    /\ ev = NoEv
    /\ pc[p] = "gd_connect"
    /\ \/ /\ pc' = [pc EXCEPT ![p] = "gd_exists"]
          /\ UNCHANGED <<gd, ev>>
       \/ /\ ev' = get_data_response(gd[p].hdr, "no_connection", gd[p].at)
          /\ pc' = [pc EXCEPT ![p] = "idle"]
          /\ gd' = [gd EXCEPT ![p] = NoGd]
    /\ UNCHANGED <<now, ticks, users, lock, nextId, sessions, issued, req, tok, written, held, gw, proxied>>

\* a get_data that renews the Session Record of the token it accepts
GetDataExists_sliding(p, redis) ==
    /\ ev = NoEv
    /\ pc[p] = "gd_exists"
    /\ ev' = get_data_response(gd[p].hdr, redis, gd[p].at)
    /\ sessions' = IF get_data(gd[p].hdr, sessions, redis, gd[p].at).status = OK
                   THEN Put(sessions, gd[p].hdr.token, now + TtlSecs) ELSE sessions
    /\ pc' = [pc EXCEPT ![p] = "idle"]
    /\ gd' = [gd EXCEPT ![p] = NoGd]
    /\ UNCHANGED <<now, ticks, users, lock, nextId, issued, req, tok, written, held, gw, proxied>>

\* main.rs:110-143  conn.exists(token), then the 401 or the mock data
GetDataExists(p, redis) ==
    /\ ev = NoEv
    /\ pc[p] = "gd_exists"
    /\ ev' = get_data_response(gd[p].hdr, redis, gd[p].at)
    /\ pc' = [pc EXCEPT ![p] = "idle"]
    /\ gd' = [gd EXCEPT ![p] = NoGd]
    /\ UNCHANGED <<now, ticks, users, lock, nextId, sessions, issued, req, tok, written, held, gw, proxied>>

(* --------------------- test-service: check_login ----------------------- *)
\* main.rs:45-57: the token string check_login extracts
check_login_token(hdr) ==
    IF hdr.scheme = "Bearer" THEN hdr.token ELSE EmptyToken

\* a check that answers 401 when the token is absent or does not verify
check_login_unauthorized(hdr, t) ==
    LET token == check_login_token(hdr) IN
    IF token.kind # "empty" /\ decode(token, Secret, t) = "Ok"
        THEN [status |-> OK, is_logged_in |-> TRUE, user |-> token.email, trips |-> 0]
    ELSE [status |-> UNAUTHORIZED, is_logged_in |-> FALSE, user |-> "null", trips |-> 0]

\* main.rs:43-79
check_login(hdr, t) ==
    LET token == check_login_token(hdr) IN
    IF token.kind = "empty"
        THEN [status |-> OK, is_logged_in |-> FALSE, user |-> "null", trips |-> 0]
    ELSE IF decode(token, Secret, t) = "Ok"
        THEN [status |-> OK, is_logged_in |-> TRUE, user |-> token.email, trips |-> 0]
    ELSE [status |-> OK, is_logged_in |-> FALSE, user |-> "null", trips |-> 0]

\* a GET /api/is-logged-in request
CheckLogin(hdr) ==
    /\ ev = NoEv
    /\ ev' = [op |-> "check_login", hdr |-> hdr, at |-> now, resp |-> check_login(hdr, now)]
    /\ UNCHANGED <<now, ticks, users, lock, nextId, sessions, issued, pc, req, tok, written, held, gd, proxied>>

(* ----------------------- api-service: gateway -------------------------- *)
\* main.rs:24-29: the internal base address of each backend
auth_base_url == "http://auth-service:8080"
data_base_url == "http://data-service:8081"
test_base_url == "http://test-service:8082"

\* A path is the sequence of its lexical pieces: separators ("/", "\\"), dots,
\* percent-encoded dots, each character the url crate percent-encodes in a
\* path, and the runs of other characters between them, so "/api/auth/login"
\* is <<"/", "api", "/", "auth", "/", "login">>, ".." is <<".", ".">> and
\* "%2e%2e" is <<"%2e", "%2e">>. A byte outside printable ASCII is the piece
\* "\\xHH" of its two hex digits, so "café" (UTF-8 63 61 66 C3 A9) is
\* <<"caf", "\\xC3", "\\xA9">> and DEL is "\\x7F"; the grave accent, which a
\* string here cannot hold, is "\\x60".
\* str::starts_with
starts_with(path, prefix) ==
    Len(path) >= Len(prefix) /\ SubSeq(path, 1, Len(prefix)) = prefix

\* str::strip_prefix(..).unwrap()
strip_prefix(path, prefix) == SubSeq(path, Len(prefix) + 1, Len(path))

\* path.starts_with("/api/<service>/")
starts_with_service(path, service) ==
    starts_with(path, <<"/", "api", "/", service, "/">>)

\* main.rs:37-41: the routes "/api/auth/*path", "/api/data/*path", "/api/test/*path";
\* a wildcard does not match an empty remainder
router_matches(path) ==
    \E service \in {"auth", "data", "test"} :
        starts_with_service(path, service) /\ Len(path) > 5

\* proxy.rs:19-28: (base_url, service_path) of the first matching prefix
route(path) ==
    IF starts_with_service(path, "auth")
        THEN [matched |-> TRUE, base_url |-> auth_base_url,
              service_path |-> strip_prefix(path, <<"/", "api", "/", "auth">>)]
    ELSE IF starts_with_service(path, "data")
        THEN [matched |-> TRUE, base_url |-> data_base_url,
              service_path |-> strip_prefix(path, <<"/", "api", "/", "data">>)]
    ELSE IF starts_with_service(path, "test")
        THEN [matched |-> TRUE, base_url |-> test_base_url,
              service_path |-> strip_prefix(path, <<"/", "api", "/", "test">>)]
    ELSE [matched |-> FALSE, base_url |-> "", service_path |-> << >>]

\* proxy.rs:31-32: format!("{}{}", base_url, format!("/api{}", service_path))
target_url(base_url, service_path) ==
    [base |-> base_url, path |-> <<"/", "api">> \o service_path]

\* two upper-case hex digits of a byte
HexDigits == <<"0", "1", "2", "3", "4", "5", "6", "7", "8", "9", "A", "B", "C", "D", "E", "F">>
hex(b) == HexDigits[(b \div 16) + 1] \o HexDigits[(b % 16) + 1]

\* the piece that stands for the byte b
byte_piece(b) == "\\x" \o hex(b)

\* the bytes of the url crate's path percent-encode set that are written as
\* byte pieces: the C0 controls, the grave accent, DEL and every byte from
\* 0x80 up (tab, LF and CR, which the parser removes from its input, and "#"
\* and "?", which end the path, do not occur in uri.path())
PathSetBytes == ((0..31) \ {9, 10, 13}) \cup {96} \cup (127..255)

\* %HH of every byte piece
percent_encoded_bytes ==
    [p \in {byte_piece(b) : b \in PathSetBytes} |->
        "%" \o hex(CHOOSE b \in PathSetBytes : p = byte_piece(b))]

\* the url crate's path parser, which reqwest's IntoUrl runs on the target
\* string. It percent-encodes the characters of its path set: the bytes
\* above and space, ", <, >, {, }; every other character is kept,
percent_encode(c) ==
    IF c \in DOMAIN percent_encoded_bytes THEN percent_encoded_bytes[c]
    ELSE CASE c = "{" -> "%7B"
           [] c = "}" -> "%7D"
           [] c = "\"" -> "%22"
           [] c = " " -> "%20"
           [] c = "<" -> "%3C"
           [] c = ">" -> "%3E"
           [] OTHER -> c

\* splits the path into segments at "/" and, for http URLs, at "\\",
RECURSIVE split_segments(_, _, _)
split_segments(segs, cur, rest) ==
    IF rest = << >> THEN Append(segs, cur)
    ELSE IF Head(rest) \in {"/", "\\"}
        THEN split_segments(Append(segs, cur), << >>, Tail(rest))
    ELSE split_segments(segs, Append(cur, percent_encode(Head(rest))), Tail(rest))

\* takes ".", "%2e", "%2E" for a single-dot segment and any two of them for a
\* double-dot segment,
single_dot(seg) == Len(seg) = 1 /\ seg[1] \in {".", "%2e", "%2E"}
double_dot(seg) ==
    Len(seg) = 2 /\ seg[1] \in {".", "%2e", "%2E"} /\ seg[2] \in {".", "%2e", "%2E"}

\* skips a single-dot segment and lets a double-dot segment pop the segment
\* before it; when either is the last segment the path ends in an empty one
RECURSIVE remove_dot_segments(_, _)
remove_dot_segments(acc, rest) ==
    IF rest = << >> THEN acc
    ELSE LET s == Head(rest)
             trail == IF Len(rest) = 1 THEN << << >> >> ELSE << >>
         IN  IF double_dot(s)
                 THEN remove_dot_segments(
                          (IF acc = << >> THEN << >> ELSE SubSeq(acc, 1, Len(acc) - 1)) \o trail,
                          Tail(rest))
             ELSE IF single_dot(s)
                 THEN remove_dot_segments(acc \o trail, Tail(rest))
             ELSE remove_dot_segments(Append(acc, s), Tail(rest))

\* and writes the segments back with "/" in front of each
RECURSIVE join_segments(_)
join_segments(segs) ==
    IF segs = << >> THEN << >>
    ELSE <<"/">> \o Head(segs) \o join_segments(Tail(segs))

\* proxy.rs:45-46: client.request(method, &target_url) parses the string into
\* the URL the request goes to
into_url(url) ==
    LET segs == remove_dot_segments(<< >>, split_segments(<< >>, << >>, Tail(url.path)))
    IN  [base |-> url.base,
         path |-> IF segs = << >> THEN <<"/">> ELSE join_segments(segs)]

\* a failure reported to the client as a success
gw_error_masked(status, sent) ==
    [status |-> 200, headers |-> << >>, body |-> NoBody, sent |-> sent]

\* Err(StatusCode): a bare status, no headers, an empty body
gw_error(status, sent) ==
    [status |-> status, headers |-> << >>, body |-> NoBody, sent |-> sent]

\* a gateway that sends the request a second time when the upstream fails
proxy_request_retry(uri, method, headers, body, out) ==
    LET r == route(uri.path)
        upstream == [method |-> method, url |-> into_url(target_url(r.base_url, r.service_path)),
                     headers |-> headers, body |-> body]
    IN  IF ~r.matched THEN gw_error(404, << >>)
        ELSE IF out.fail = "body" THEN gw_error(400, << >>)
        ELSE IF out.fail \in {"send", "read"} THEN gw_error(502, <<upstream, upstream>>)
        ELSE IF out.fail = "build" THEN gw_error(500, <<upstream>>)
        ELSE [status |-> out.up.status, headers |-> out.up.headers,
              body |-> out.up.body, sent |-> <<upstream>>]

\* a gateway that answers 200 with its own headers whatever the upstream said
proxy_request_masking(uri, method, headers, body, out) ==
    LET r == route(uri.path)
        upstream == [method |-> method, url |-> into_url(target_url(r.base_url, r.service_path)),
                     headers |-> headers, body |-> body]
    IN  IF ~r.matched THEN gw_error(404, << >>)
        ELSE IF out.fail = "body" THEN gw_error(400, << >>)
        ELSE IF out.fail \in {"send", "read"} THEN gw_error(502, <<upstream>>)
        ELSE IF out.fail = "build" THEN gw_error(500, <<upstream>>)
        ELSE [status |-> 200, headers |-> << >>,
              body |-> out.up.body, sent |-> <<upstream>>]

\* a gateway that appends the inbound query string to the target
proxy_request_with_query(uri, method, headers, body, out) ==
    LET r == route(uri.path)
        url == into_url(target_url(r.base_url, r.service_path))
        upstream == [method |-> method,
                     url |-> [base |-> url.base, path |-> url.path, query |-> uri.query],
                     headers |-> headers, body |-> body]
    IN  IF ~r.matched THEN gw_error(404, << >>)
        ELSE IF out.fail = "body" THEN gw_error(400, << >>)
        ELSE IF out.fail \in {"send", "read"} THEN gw_error(502, <<upstream>>)
        ELSE IF out.fail = "build" THEN gw_error(500, <<upstream>>)
        ELSE [status |-> out.up.status, headers |-> out.up.headers,
              body |-> out.up.body, sent |-> <<upstream>>]

\* proxy.rs:11-82: the response of proxy_request and the upstream requests it
\* made (`sent`). out.fail names the step that fails ("none", "body", "send",
\* "read", or "build" for builder.body(..) of l.75-80, an arm the source
\* handles although the status and headers it is given come from a parsed
\* response), out.up is the upstream's response
proxy_request(uri, method, headers, body, out) ==
    LET r == route(uri.path)
        upstream == [method |-> method, url |-> into_url(target_url(r.base_url, r.service_path)),
                     headers |-> headers, body |-> body]
    IN  IF ~r.matched THEN gw_error(404, << >>)
        ELSE IF out.fail = "body" THEN gw_error(400, << >>)
        ELSE IF out.fail = "send" THEN gw_error(502, <<upstream>>)
        ELSE IF out.fail = "read" THEN gw_error(502, <<upstream>>)
        ELSE IF out.fail = "build" THEN gw_error(500, <<upstream>>)
        ELSE [status |-> out.up.status, headers |-> out.up.headers,
              body |-> out.up.body, sent |-> <<upstream>>]

\* a gateway that hands a request no route matches to the auth backend
gateway_forward_unmatched(uri, method, headers, body, out) ==
    IF router_matches(uri.path) THEN proxy_request(uri, method, headers, body, out)
    ELSE proxy_request([uri EXCEPT !.path = <<"/", "api", "/", "auth">> \o uri.path],
                       method, headers, body, out)

\* main.rs:37-41 then proxy.rs: a request no route matches is answered 404 by
\* the router and never reaches proxy_request
gateway(uri, method, headers, body, out) ==
    IF router_matches(uri.path) THEN proxy_request(uri, method, headers, body, out)
    ELSE gw_error(404, << >>)

(* ------------------------ the backends' routers ------------------------ *)
\* auth-service main.rs:49-56, data-service main.rs:64-70, test-service
\* main.rs:19-22: what an upstream request reaches: a handler, the router's
\* 404 or 405, or the Json extractor's 415 for a request without a JSON body.
\* A route made with get(..) serves GET and HEAD, one made with post(..) POST
backend_route(u) ==
    LET path == u.url.path
        handler == IF u.url.base = auth_base_url /\ path = <<"/", "api", "/", "register">>
                       THEN [name |-> "register", methods |-> {"POST"}]
                   ELSE IF u.url.base = auth_base_url /\ path = <<"/", "api", "/", "login">>
                       THEN [name |-> "login", methods |-> {"POST"}]
                   ELSE IF u.url.base = data_base_url /\ path = <<"/", "api", "/", "data">>
                       THEN [name |-> "get_data", methods |-> {"GET", "HEAD"}]
                   ELSE IF u.url.base = test_base_url /\ path = <<"/", "api", "/", "is-logged-in">>
                       THEN [name |-> "check_login", methods |-> {"GET", "HEAD"}]
                   ELSE IF /\ u.url.base \in {data_base_url, test_base_url}
                           /\ path = <<"/", "api", "/", "health">>
                       THEN [name |-> "health", methods |-> {"GET", "HEAD"}]
                   ELSE [name |-> "not_found", methods |-> {u.method}]
    IN  IF u.method \notin handler.methods THEN "method_not_allowed"
        ELSE IF handler.name \in {"register", "login"} /\ u.body.kind # "credentials"
            THEN "unsupported_media_type"
        ELSE handler.name

\* the answer to a HEAD request is the GET handler's without its body
head_response(u, resp) ==
    IF u.method = "HEAD" THEN [resp EXCEPT !.body = NoBody] ELSE resp

\* the response of the routers and of the health closures
static_response(u) ==
    LET r == backend_route(u) IN
    IF r = "health"
        THEN head_response(u,
                 [status |-> 200, headers |-> <<"content-type: text/plain; charset=utf-8">>,
                  body |-> [kind |-> "text",
                            text |-> IF u.url.base = data_base_url THEN "OK from data-service"
                                     ELSE "OK from test-service"]])
    ELSE IF r = "method_not_allowed"
        THEN [status |-> 405,
              headers |-> IF u.url.base = auth_base_url THEN <<"allow: POST">>
                          ELSE <<"allow: GET,HEAD">>,
              body |-> NoBody]
    ELSE IF r = "unsupported_media_type"
        THEN [status |-> 415, headers |-> <<"content-type: text/plain; charset=utf-8">>,
              body |-> [kind |-> "text",
                        text |-> "MissingJsonContentType"]]
    ELSE [status |-> 404, headers |-> << >>, body |-> NoBody]

\* the HTTP response a handler's answer `e` is: Json(..) bodies carry a
\* content-type, a bare StatusCode carries nothing
http_response(e) ==
    LET json == <<"content-type: application/json">>
        bare(status) == [status |-> status, headers |-> << >>, body |-> NoBody]
    IN  IF e.op = "register" THEN bare(e.status)
        ELSE IF e.op = "login" THEN
            IF e.status = OK
                THEN [status |-> OK, headers |-> json,
                      body |-> [kind |-> "token", access_token |-> e.token]]
            ELSE bare(e.status)
        ELSE IF e.op = "get_data" THEN
            IF e.resp.status = OK
                THEN [status |-> OK, headers |-> json,
                      body |-> [kind |-> "data", user_email |-> e.resp.user_email]]
            ELSE bare(e.resp.status)
        ELSE IF e.op = "check_login"
            THEN [status |-> e.resp.status, headers |-> json,
                  body |-> [kind |-> "status", is_logged_in |-> e.resp.is_logged_in,
                            user |-> e.resp.user]]
        ELSE e.resp

(* ------------------- api-service: proxy_request steps ------------------ *)
\* the response proxy_request sends to the client
proxy_response(r, out) ==
    [op |-> "proxy", request |-> r, out |-> out,
     resp |-> gateway(r.uri, r.method, r.headers, r.body, out)]

\* proxy.rs:45-48: the request proxy_request builds for the upstream
upstream_request(r) ==
    proxy_request(r.uri, r.method, r.headers, r.body, [fail |-> "none", up |-> NoUp]).sent[1]

\* a request arrives at the gateway; proxy.rs:16-40: no route, or the rewrite
\* and the start of the read of the inbound body
ProxyBegin(g, r) ==
    /\ ev = NoEv
    /\ gw[g].pc = "idle"
    /\ proxied < MaxProxied
    /\ proxied' = proxied + 1
    /\ IF router_matches(r.uri.path) /\ route(r.uri.path).matched
          THEN /\ gw' = [gw EXCEPT ![g] = [pc |-> "body", request |-> r, up |-> NoUp]]
               /\ ev' = ev
          ELSE /\ ev' = proxy_response(r, [fail |-> "none", up |-> NoUp])
               /\ gw' = gw
    /\ UNCHANGED <<now, ticks, users, lock, nextId, sessions, issued, pc, req, tok, written, held, gd>>

\* proxy.rs:40-50  body::to_bytes(..).await, then the request is built and its
\* send begins
ProxyBody(g) ==
    /\ ev = NoEv
    /\ gw[g].pc = "body"
    /\ \/ /\ gw' = [gw EXCEPT ![g].pc = "send"]
          /\ ev' = ev
       \/ /\ ev' = proxy_response(gw[g].request, [fail |-> "body", up |-> NoUp])
          /\ gw' = [gw EXCEPT ![g] = NoGw]
    /\ UNCHANGED <<now, ticks, users, lock, nextId, sessions, issued, pc, req, tok, written, held, gd, proxied>>

\* proxy.rs:50-56  request_builder.send().await fails: the upstream is not reached
ProxySendFail(g) ==
    /\ ev = NoEv
    /\ gw[g].pc = "send"
    /\ ev' = proxy_response(gw[g].request, [fail |-> "send", up |-> NoUp])
    /\ gw' = [gw EXCEPT ![g] = NoGw]
    /\ UNCHANGED <<now, ticks, users, lock, nextId, sessions, issued, pc, req, tok, written, held, gd, proxied>>

\* the upstream request of handler g reaches the backend's handler `name`
Reaches(g, name) ==
    /\ gw[g].pc = "send"
    /\ backend_route(upstream_request(gw[g].request)) = name
    /\ gw' = [gw EXCEPT ![g].pc = "wait"]

UpstreamRegister(g) ==
    /\ Reaches(g, "register")
    /\ RegisterLock(g, gw[g].request.body.email, gw[g].request.body.password)

UpstreamLogin(g) ==
    /\ Reaches(g, "login")
    /\ LoginLock(g, gw[g].request.body.email, gw[g].request.body.password)

UpstreamGetData(g) ==
    /\ Reaches(g, "get_data")
    /\ GetDataBegin(g, gw[g].request.headers)

UpstreamCheckLogin(g) ==
    /\ Reaches(g, "check_login")
    /\ CheckLogin(gw[g].request.headers)

\* the backend answers without a handler of the session protocol
UpstreamOther(g) ==
    /\ ev = NoEv
    /\ \E name \in {"health", "not_found", "method_not_allowed", "unsupported_media_type"} :
          Reaches(g, name)
    /\ ev' = [op |-> "static", resp |-> static_response(upstream_request(gw[g].request))]
    /\ UNCHANGED <<now, ticks, users, lock, nextId, sessions, issued, pc, req, tok, written, held, gd, proxied>>

\* proxy.rs:50-59  send().await resolves: the backend's answer has come back
ProxyResponse(g) ==
    /\ ev # NoEv
    /\ ev.op # "proxy"
    /\ gw[g].pc = "wait"
    /\ pc[g] = "idle"
    /\ gw' = [gw EXCEPT ![g].pc = "read",
                         ![g].up = head_response(upstream_request(gw[g].request),
                                                 http_response(ev))]
    /\ ev' = NoEv
    /\ UNCHANGED <<now, ticks, users, lock, nextId, sessions, issued, pc, req, tok, written, held, gd, proxied>>

\* proxy.rs:60-81  response.bytes().await is Ok or Err, then builder.body(..)
\* is Ok (the relay) or Err
ProxyRead(g) ==
    /\ ev = NoEv
    /\ gw[g].pc = "read"
    /\ \E fail \in {"none", "read", "build"} :
          ev' = proxy_response(gw[g].request, [fail |-> fail, up |-> gw[g].up])
    /\ gw' = [gw EXCEPT ![g] = NoGw]
    /\ UNCHANGED <<now, ticks, users, lock, nextId, sessions, issued, pc, req, tok, written, held, gd, proxied>>

(* ------------------- requests clients send the gateway ----------------- *)
Request(path, query, method, headers, body) ==
    [uri |-> [path |-> path, query |-> query], method |-> method,
     headers |-> headers, body |-> body]

\* "/api/<service>/<rest>"
PublicPath(service, rest) == <<"/", "api", "/", service, "/">> \o rest

\* a JSON body {email, password}
Credentials(email, password) ==
    [kind |-> "credentials", email |-> email, password |-> password]

\* paths next to the four endpoints
GwOddPaths ==
    { PublicPath("data", <<"health">>),
      PublicPath("auth", <<".", ".", "/", "health">>),
      PublicPath("auth", <<"%2e", "%2e", "/", "health">>),
      PublicPath("auth", <<".", "%2E", "/", "health">>),
      PublicPath("data", <<".", "/", "data">>),
      PublicPath("test", <<".", ".">>),
      PublicPath("auth", <<"a", "\\", "b">>),
      PublicPath("auth", <<"a", "{", "\"", "}", "\\xC3", "\\xA9">>),
      PublicPath("auth", << >>),
      <<"/", "api", "/", "auth">>,
      PublicPath("unknown", <<"x">>),
      <<"/", "health">> }

\* the well-formed requests to the four endpoints a client can send in the
\* current state
GwCoreRequests ==
    {Request(PublicPath("auth", <<op>>), "", "POST", NoHeader, Credentials(e, pw)) :
        op \in {"register", "login"}, e \in Registrants, pw \in Passwords}
    \cup {Request(PublicPath(sp[1], <<sp[2]>>), "", "GET", h, NoBody) :
            sp \in {<<"data", "data">>, <<"test", "is-logged-in">>},
            h \in {NoHeader} \cup {Bearer(t) : t \in held}}

\* the requests a client can send in the current state
GwRequests ==
    GwCoreRequests
    \cup {Request(PublicPath(sp[1], <<sp[2]>>), "a=1", "GET", NoHeader, NoBody) :
            sp \in {<<"data", "data">>, <<"test", "is-logged-in">>}}
    \cup {Request(path, "", "GET", NoHeader, NoBody) : path \in GwOddPaths}
    \cup {Request(PublicPath("auth", <<"login">>), "", "POST", NoHeader, NoBody),
          Request(PublicPath("auth", <<"login">>), "", "GET", NoHeader, NoBody),
          Request(PublicPath("test", <<"is-logged-in">>), "", "HEAD", NoHeader, NoBody),
          Request(PublicPath("data", <<"health">>), "", "HEAD", NoHeader, NoBody),
          Request(PublicPath("data", <<"data">>), "a=1", "POST", Bearer(GarbageToken),
                  Credentials("u1", "p1"))}

(* ------------------------------ Next ----------------------------------- *)
\* the backends, each request sent to its service directly
Next ==
    \/ Receive
    \/ \E p \in Procs, e \in Registrants, pw \in Passwords :
          RegisterLock(p, e, pw) /\ UNCHANGED gw
    \/ \E p \in Procs : RegisterCheck(p)
    \/ \E p \in Procs : RegisterInsert(p)
    \/ \E p \in Procs, e \in Emails, pw \in Passwords :
          LoginLock(p, e, pw) /\ UNCHANGED gw
    \/ \E p \in Procs : LoginCheck(p)
    \/ \E p \in Procs : LoginConnect(p)
    \/ \E p \in Procs : LoginSetEx(p)
    \/ \E p \in Procs : LoginReturn(p)
    \/ \E t \in DOMAIN sessions : Revoke(t)
    \/ \E d \in TimeSteps : Tick(d)
    \/ \E h \in Headers : CheckLogin(h) /\ UNCHANGED gw
    \/ \E p \in DataProcs, h \in Headers : GetDataBegin(p, h) /\ UNCHANGED gw
    \/ \E p \in Procs : GetDataConnect(p)
    \/ \E p \in Procs, r \in {"ok", "command_failed"} : GetDataExists(p, r)

Spec == Init /\ [][Next]_vars

\* the mesh behind the gateway: every request enters through proxy_request.
\* Two requests are in flight at most: one of any kind and one well-formed
\* request to an endpoint
NextGw ==
    \/ ev.op = "proxy" /\ Receive
    \/ \E r \in GwRequests : ProxyBegin(1, r)
    \/ \E r \in GwCoreRequests : ProxyBegin(2, r)
    \/ \E g \in Procs : ProxyBody(g)
    \/ \E g \in Procs : ProxySendFail(g)
    \/ \E g \in Procs : UpstreamRegister(g)
    \/ \E g \in Procs : UpstreamLogin(g)
    \/ \E g \in Procs : UpstreamGetData(g)
    \/ \E g \in Procs : UpstreamCheckLogin(g)
    \/ \E g \in Procs : UpstreamOther(g)
    \/ \E g \in Procs : ProxyResponse(g)
    \/ \E g \in Procs : ProxyRead(g)
    \/ \E p \in Procs : RegisterCheck(p)
    \/ \E p \in Procs : RegisterInsert(p)
    \/ \E p \in Procs : LoginCheck(p)
    \/ \E p \in Procs : LoginConnect(p)
    \/ \E p \in Procs : LoginSetEx(p)
    \/ \E p \in Procs : LoginReturn(p)
    \/ \E p \in Procs : GetDataConnect(p)
    \/ \E p \in Procs, r \in {"ok", "command_failed"} : GetDataExists(p, r)
    \/ \E t \in DOMAIN sessions : Revoke(t)
    \/ \E d \in TimeSteps : Tick(d)

SpecGw == Init /\ [][NextGw]_vars

(* ============================== claims ================================= *)
\* the token's signature verifies under the shared secret
SigValid(t) == t.kind = "jwt" /\ t.sig = Sign(Secret, t.sub, t.email, t.exp)

\* a response reports the presented token as authenticated
Authenticated ==
    \/ ev.op = "get_data" /\ ev.resp.status = OK
    \/ ev.op = "check_login" /\ ev.resp.is_logged_in

\* the step just taken sent out a response of handler `op`
Responds(op) == ev.op = "none" /\ ev'.op = op

\* C1: whenever get_data answers 200 or check_login answers is_logged_in = true,
\* the token's signature verifies under the shared secret, its embedded expiry
\* has not passed, and a Session Record keyed by that token exists in the store
\* at the time of the check.
C1_AuthenticatedIsLive ==
    Authenticated =>
        /\ SigValid(ev.hdr.token)
        /\ ev.hdr.token.exp > now
        /\ exists(sessions, ev.hdr.token)

\* C2: for a token T that login returned, while T's embedded expiry is still
\* valid and the store answers, get_data with "Bearer T" returns 200 as long as
\* T's Session Record exists and 401 once the record has been removed (TTL lapse
\* or explicit deletion).
C2_LiveIffRecorded ==
    (/\ ev.op = "get_data"
     /\ ev.hdr.scheme = "Bearer"
     /\ ev.hdr.token \in held
     /\ ev.hdr.token.exp > now
     /\ ev.redis = "ok")
    => ev.resp.status = IF ev.hdr.token \in DOMAIN sessions THEN OK ELSE UNAUTHORIZED

\* C2 witness: a token a client holds, still within its embedded expiry, is
\* rejected with 401 after its Session Record was removed.
C2_Witness ==
    /\ ev.op = "get_data"
    /\ ev.hdr.scheme = "Bearer"
    /\ ev.hdr.token \in held
    /\ ev.hdr.token.exp > now
    /\ ev.redis = "ok"
    /\ ev.hdr.token \in DOMAIN written
    /\ ev.hdr.token \notin DOMAIN sessions
    /\ ev.resp.status = UNAUTHORIZED

\* C3: login never returns a token before the Session Store write for that
\* token has completed: every token in a 200 login response, and every token a
\* client holds, has been written to the store; and a returned token whose
\* record is in the store is accepted by get_data at once.
C3_WrittenBeforeReturned ==
    /\ held \subseteq DOMAIN written
    /\ (ev.op = "login" /\ ev.status = OK) =>
          /\ ev.token \in DOMAIN written
          /\ (exists(sessions, ev.token) /\ ev.token.exp > now) =>
                get_data(Bearer(ev.token), sessions, "ok", now).status = OK

\* C3 witness: a 200 login response is on its way and its record is in the store.
C3_Witness ==
    /\ ev.op = "login"
    /\ ev.status = OK
    /\ ev.token \in DOMAIN sessions
    /\ ev.token \notin held

\* C4: the user-directory lock is never held across a network call: a login
\* handler that is opening the store connection or writing the Session Record
\* does not hold the directory lock.
C4_NoLockAcrossStoreCall ==
    \A p \in Procs : pc[p] \in {"login_connect", "login_set_ex"} => lock # p

\* C5: an existing user record is never modified or deleted by any step; a
\* register for an email already present returns 409 and leaves the directory
\* unchanged, a register for an absent email returns 201 and adds exactly that
\* record, so at most one register per email returns 201; every record is keyed
\* by its own email.
C5_RegisterOncePerEmail ==
    [][/\ \A e \in DOMAIN users : e \in DOMAIN users' /\ users'[e] = users[e]
       /\ \A e \in DOMAIN users' : users'[e].email = e
       /\ Responds("register") =>
             IF ev'.email \in DOMAIN users
             THEN ev'.status = CONFLICT /\ users' = users
             ELSE /\ ev'.status = CREATED
                  /\ DOMAIN users' = DOMAIN users \cup {ev'.email}]_vars

\* C5 witness: a second register of a present email has been answered 409.
C5_Witness ==
    /\ ev.op = "register"
    /\ ev.status = CONFLICT
    /\ ev.email \in DOMAIN users
    /\ users[ev.email].password_hash.pw # ev.password

\* C6: when the Session Store write of a login fails (no connection, or the
\* set-with-expiry command fails), login answers 500, returns no token, no
\* client comes to hold one, and the user directory is unchanged.
C6_StoreFailureFailsLogin ==
    [][(Responds("login") /\ ev'.cause \in {"connect", "set_ex"}) =>
          /\ ev'.status = INTERNAL_SERVER_ERROR
          /\ ev'.token = NoToken
          /\ users' = users
          /\ sessions' = sessions
          /\ held' = held]_vars

\* C6 witness: a login whose SET EX failed has been answered.
C6_Witness ==
    /\ ev.op = "login"
    /\ ev.cause = "set_ex"

\* C7: get_data fails closed: for a signature-valid, unexpired bearer token,
\* when the store cannot be reached or the existence query fails, the answer
\* is 500 and never 200.
C7_FailsClosed ==
    (/\ ev.op = "get_data"
     /\ ev.hdr.scheme = "Bearer"
     /\ SigValid(ev.hdr.token)
     /\ ev.hdr.token.exp > now
     /\ ev.redis # "ok")
    => ev.resp.status = INTERNAL_SERVER_ERROR

\* C7 witness: a live token (valid, unexpired, recorded) met a failing
\* existence query.
C7_Witness ==
    /\ ev.op = "get_data"
    /\ ev.hdr.scheme = "Bearer"
    /\ SigValid(ev.hdr.token)
    /\ ev.hdr.token.exp > now
    /\ ev.hdr.token \in DOMAIN sessions
    /\ ev.redis = "command_failed"
    /\ ev.resp.status = INTERNAL_SERVER_ERROR

\* C8: a request with a missing or malformed bearer header, a tampered
\* signature, an altered payload or an embedded expiry that has passed when
\* get_data verifies the token is answered 401 by get_data without any store
\* round trip.
C8_RejectedOnceExpired ==
    (/\ ev.op = "get_data"
     /\ \/ bearer_token(ev.hdr) = NoToken
        \/ ~SigValid(ev.hdr.token)
        \/ ev.hdr.token.exp <= ev.at)
    => ev.resp.status = UNAUTHORIZED /\ ev.resp.trips = 0

\* C9: a login for an email that is not in the directory and a login whose
\* credential verification fails get the same response, a bare 401 without a
\* token; neither creates a token nor writes a Session Record.
C9_UniformUnauthorized ==
    [][(Responds("login") /\ ev'.cause \in {"no_user", "bad_password"}) =>
          /\ [status |-> ev'.status, token |-> ev'.token]
               = [status |-> UNAUTHORIZED, token |-> NoToken]
          /\ ev'.minted = NoToken
          /\ issued' = issued
          /\ sessions' = sessions
          /\ written' = written]_vars

\* C9 witness: a login with a wrong password for a registered email has been
\* answered.
C9_Witness ==
    /\ ev.op = "login"
    /\ ev.cause = "bad_password"
    /\ ev.email \in DOMAIN users

\* C10: only login's SET EX writes Session Records: any step that adds or
\* overwrites a record is the set_ex step of a login; the responses of
\* register (201 or 409), get_data, check_login and the routers, every step of
\* get_data and every step of proxy_request leave the store as it was; and
\* registration issues no token, directly or through the gateway.
C10_OnlyLoginWrites ==
    [][/\ (\E t \in DOMAIN sessions' : t \notin DOMAIN sessions \/ sessions'[t] # sessions[t])
             => \E p \in Procs : pc[p] = "login_set_ex" /\ pc'[p] = "login_ret"
       /\ (\E op \in {"register", "get_data", "check_login", "static", "proxy"} : Responds(op))
             => sessions' = sessions /\ written' = written
       /\ (\E p \in Procs : pc[p] \in {"gd_connect", "gd_exists"} /\ pc'[p] # pc[p])
             => sessions' = sessions /\ written' = written
       /\ gw' # gw => sessions' = sessions /\ written' = written
       /\ Responds("register") => ev'.token = NoToken /\ issued' = issued
       /\ (/\ ev.op = "proxy"
           /\ Len(ev.resp.sent) = 1
           /\ backend_route(ev.resp.sent[1]) = "register") => held' = held]_vars

\* C10 witness: the gateway has relayed the answer of a register while the
\* store holds a record.
C10_Witness ==
    /\ ev.op = "proxy"
    /\ Len(ev.resp.sent) = 1
    /\ backend_route(ev.resp.sent[1]) = "register"
    /\ ev.resp.status \in {CREATED, CONFLICT}
    /\ DOMAIN sessions # {}

(* ------------------------- gateway claims ------------------------------ *)
\* the path is /api/<service>/<rest> for one of the three configured services,
\* with a <rest> that is not empty
ServicePath(path) ==
    /\ \E service \in {"auth", "data", "test"} :
          starts_with(path, <<"/", "api", "/", service, "/">>)
    /\ Len(path) > 5

\* the internal base address the deployment gives each service
InternalBase(service) ==
    CASE service = "auth" -> "http://auth-service:8080"
      [] service = "data" -> "http://data-service:8081"
      [] service = "test" -> "http://test-service:8082"

\* C11: for a request to /api/<service>/<rest> whose body could be read, the
\* gateway makes exactly one upstream request; it carries the inbound method,
\* headers and body unchanged and goes to <internal base of the service>
\* followed by /api/<rest>.
C11_RewriteAndForward ==
    (ev.op = "proxy" /\ ServicePath(ev.request.uri.path) /\ ev.out.fail # "body") =>
        LET path == ev.request.uri.path
            sent == ev.resp.sent
        IN  /\ Len(sent) = 1
            /\ sent[1].method = ev.request.method
            /\ sent[1].headers = ev.request.headers
            /\ sent[1].body = ev.request.body
            /\ sent[1].url = [base |-> InternalBase(path[4]),
                              path |-> <<"/", "api", "/">> \o SubSeq(path, 6, Len(path))]

\* C12: a request whose path is not /api/<service>/<rest> for a configured
\* service is answered 404 and no upstream request is made.
C12_UnmatchedIsNotFound ==
    (ev.op = "proxy" /\ ~ServicePath(ev.request.uri.path)) =>
        /\ ev.resp.status = 404
        /\ ev.resp.sent = << >>

\* C12 witness: /api/unknown/x has been answered 404 with no upstream request.
C12_Witness ==
    /\ ev.op = "proxy"
    /\ ev.request.uri.path = <<"/", "api", "/", "unknown", "/", "x">>
    /\ ev.resp.status = 404
    /\ ev.resp.sent = << >>

\* C13: when a step of forwarding a routed request fails, the client gets the
\* status of that step and nothing else: 400 when the inbound body cannot be
\* read, 502 when the upstream cannot be reached or sent to, 502 when the
\* upstream's response body cannot be read, 500 when the outbound response
\* cannot be built; the response is a bare status, never a 2xx, whatever the
\* upstream answered.
C13_FailureMapping ==
    (ev.op = "proxy" /\ ServicePath(ev.request.uri.path) /\ ev.out.fail # "none") =>
        /\ ev.resp.status = (CASE ev.out.fail = "body" -> 400
                               [] ev.out.fail = "send" -> 502
                               [] ev.out.fail = "read" -> 502
                               [] ev.out.fail = "build" -> 500)
        /\ ev.resp.status \notin 200..299
        /\ ev.resp.headers = << >>
        /\ ev.resp.body = NoBody

\* C13 witness: the upstream answered 200 with a body, the gateway could not
\* read that body and answered a bare 502.
C13_Witness ==
    /\ ev.op = "proxy"
    /\ ev.out.fail = "read"
    /\ ev.out.up.status = 200
    /\ ev.out.up.body # NoBody
    /\ ev.resp.status = 502
    /\ ev.resp.body = NoBody

\* C14: a client request causes at most one upstream request: exactly one when
\* the send or the read of the response fails (no second attempt), none when
\* the inbound body cannot be read or no route matches.
C14_SingleAttempt ==
    ev.op = "proxy" =>
        /\ Len(ev.resp.sent) <= 1
        /\ (ServicePath(ev.request.uri.path) /\ ev.out.fail \in {"send", "read"})
              => Len(ev.resp.sent) = 1
        /\ (~ServicePath(ev.request.uri.path) \/ ev.out.fail = "body")
              => Len(ev.resp.sent) = 0

\* C14 witness: the send to the upstream failed, one upstream request was made
\* and the client got 502.
C14_Witness ==
    /\ ev.op = "proxy"
    /\ ServicePath(ev.request.uri.path)
    /\ ev.out.fail = "send"
    /\ Len(ev.resp.sent) = 1
    /\ ev.resp.status = 502

\* C15: when every step of forwarding a routed request succeeds, the client's
\* response has the upstream's status, headers and body, error statuses
\* included; and the client sees a 2xx only when the upstream answered that
\* 2xx and no step failed.
C15_RelayVerbatim ==
    ev.op = "proxy" =>
        /\ (ServicePath(ev.request.uri.path) /\ ev.out.fail = "none") =>
              [status |-> ev.resp.status, headers |-> ev.resp.headers, body |-> ev.resp.body]
                 = ev.out.up
        /\ ev.resp.status \in 200..299 =>
              /\ ServicePath(ev.request.uri.path)
              /\ ev.out.fail = "none"
              /\ ev.out.up.status = ev.resp.status

\* C15 witness: login answered 500 because the store write failed and the
\* client got that bare 500 from the gateway.
C15_Witness ==
    /\ ev.op = "proxy"
    /\ ev.out.fail = "none"
    /\ Len(ev.resp.sent) = 1
    /\ backend_route(ev.resp.sent[1]) = "login"
    /\ ev.out.up = [status |-> INTERNAL_SERVER_ERROR, headers |-> << >>, body |-> NoBody]
    /\ ev.resp.status = INTERNAL_SERVER_ERROR
    /\ ev.resp.headers = << >>
    /\ ev.resp.body = NoBody

\* C19: the upstream request depends on the inbound URI through its path only:
\* the gateway's answer, the upstream request it made included, is the one it
\* gives to the same request without a query string, and the URL it sent to is
\* made of the base address and a path, with no query.
C19_QueryNotForwarded ==
    ev.op = "proxy" =>
        /\ ev.resp = gateway([path |-> ev.request.uri.path, query |-> ""],
                             ev.request.method, ev.request.headers, ev.request.body, ev.out)
        /\ \A i \in 1..Len(ev.resp.sent) : DOMAIN ev.resp.sent[i].url = {"base", "path"}

\* C19 witness: GET /api/data/data?a=1 has been forwarded to
\* <data-base>/api/data.
C19_Witness ==
    /\ ev.op = "proxy"
    /\ ev.request.uri = [path |-> <<"/", "api", "/", "data", "/", "data">>, query |-> "a=1"]
    /\ ev.out.fail = "none"
    /\ Len(ev.resp.sent) = 1
    /\ ev.resp.sent[1].url = [base |-> data_base_url, path |-> <<"/", "api", "/", "data">>]

(* ------------------- test-service and token lifetime ------------------- *)
\* C16: check_login always answers 200; when the Authorization header is
\* absent, is not "Bearer <token>", carries an empty token, or carries a token
\* the verifier rejects, the answer is {is_logged_in: false, user: null}; and
\* in every answer user is non-null exactly when is_logged_in is true.
C16_CheckLoginNeverErrors ==
    ev.op = "check_login" =>
        /\ ev.resp.status = OK
        /\ (ev.resp.user # "null") <=> ev.resp.is_logged_in
        /\ (\/ ev.hdr.scheme # "Bearer"
            \/ ev.hdr.token.kind = "empty"
            \/ ~SigValid(ev.hdr.token)
            \/ ev.hdr.token.exp < now - Leeway)
              => (~ev.resp.is_logged_in /\ ev.resp.user = "null")

\* C16 witness: a token re-signed under another key has been presented and the
\* answer was 200 {false, null}.
C16_Witness ==
    /\ ev.op = "check_login"
    /\ ev.hdr.scheme = "Bearer"
    /\ ev.hdr.token.kind = "jwt"
    /\ ~SigValid(ev.hdr.token)
    /\ ev.resp = [status |-> OK, is_logged_in |-> FALSE, user |-> "null", trips |-> 0]

\* C17: the SET EX of a login never writes a key that an earlier successful
\* login has already handed to a client as its token.
C17_TokenUniquePerLogin ==
    [][\A p \in Procs :
          (pc[p] = "login_set_ex" /\ pc'[p] = "login_ret") => tok[p] \notin held]_vars

\* C18: a login's token expires ExpSecs after the clock value at which it is
\* created and its Session Record TtlSecs after the clock value at which it is
\* written, so a record ends at least TtlSecs - ExpSecs after its token's
\* embedded expiry; a record the store drops by TTL belongs to a token whose
\* expiry has passed and which the verifier rejects; and a token the verifier
\* still accepts that has no record has a TTL that is still running, so its
\* record can only have been deleted.
C18_RecordOutlivesToken ==
    [][/\ \A p \in Procs :
             (pc[p] = "login_check" /\ pc'[p] = "login_connect")
                => tok'[p].exp = now + ExpSecs
       /\ \A p \in Procs :
             (pc[p] = "login_set_ex" /\ pc'[p] = "login_ret")
                => /\ sessions'[tok[p]] = now + TtlSecs
                   /\ written'[tok[p]] = now + TtlSecs
       /\ \A t \in DOMAIN written' : written'[t] >= t.exp + (TtlSecs - ExpSecs)
       /\ \A t \in DOMAIN sessions \ DOMAIN sessions' :
             now' > now => (t.exp < now' /\ decode(t, Secret, now') = "ExpiredSignature")
       /\ \A t \in DOMAIN written' \ DOMAIN sessions' :
             decode(t, Secret, now') = "Ok" => written'[t] > now']_vars

\* C18 witness: the record of a token a client received has lapsed by TTL.
C18_Witness ==
    \E t \in held :
        /\ t \in DOMAIN written
        /\ written[t] <= now
        /\ t \notin DOMAIN sessions
        /\ t.exp < now

====
